---- MODULE Spec2Model ----
(***************************************************************************)
(* A model of inkycal/main.py: the Inkycal class (construction, the run()  *)
(* loop with its module runner, _assemble, the calibration scheduler, the  *)
(* fingerprint gate and countdown).                                        *)
(*                                                                         *)
(* Images are one pixel wide: an image is the sequence of its rows, each   *)
(* row one RGB pixel <<r, g, b>>.  Files are records with an "exists"      *)
(* field; the text of a fingerprint file is a sequence of characters, the  *)
(* empty string being <<>>.                                                *)
(***************************************************************************)
EXTENDS Integers, Sequences, FiniteSets, TLC

\* ------------------------------------------------------------------ bounds

\* Entries in settings['modules'].
MaxModules == 2

\* Passes of the run() loop explored (over all processes).
MaxPasses == 3

\* Rows of an image handed to the fingerprint gate in SpecGate and to
\* _optimize_im in SpecOptimize.
MaxRows == 1

\* Width and height of a region in SpecPlace; a bitmap is up to one larger.
MaxSide == 2

\* ------------------------------------------------------- program constants

\* _optimize_im(image, threshold=220)
Threshold == 220

\* Rows of the canvas (the display's size, width and height switched).
DisplayHeight == 4

White == <<255, 255, 255>>
Black == <<0, 0, 0>>
Grey == <<200, 200, 200>>
Red == <<255, 0, 0>>

\* ------------------------------------------------------------- countdown

\* update_timings: (60 - interval*updates) for updates in range(60 // interval),
\* reversed; as a set, since only its least member >= now.minute is used.
UpdateTimings(interval_mins) ==
    { 60 - interval_mins * updates : updates \in 0 .. ((60 \div interval_mins) - 1) }

Min(S) == CHOOSE x \in S : \A y \in S : x <= y

\* minutes = [_ for _ in update_timings if _ >= now.minute][0] - now.minute
MinutesLeft(interval_mins, t) ==
    Min({ m \in UpdateTimings(interval_mins) : m >= t.minute }) - t.minute

countdown_to_the_second(interval_mins, t) ==
    MinutesLeft(interval_mins, t) * 60 - t.second

\* remaining_time = minutes * 60 + (60 - now.second)
countdown(interval_mins, t) ==
    MinutesLeft(interval_mins, t) * 60 + (60 - t.second)

SecondsOfDay(t) == t.hour * 3600 + t.minute * 60 + t.second

\* The wall clock after time.sleep(secs).
Advance(t, secs) ==
    LET s == (SecondsOfDay(t) + secs) % 86400
    IN  [hour |-> s \div 3600, minute |-> (s % 3600) \div 60, second |-> s % 60]

\* ------------------------------------------------------------ fingerprints

HashPaths == {"canvas.png.hash", "canvas_colour.png.hash"}

\* No file at a path of the image folder.
NoHash == [exists |-> FALSE, text |-> <<>>]
NoImage == [exists |-> FALSE, image |-> <<>>]

RECURSIVE ToBytes(_)
\* image.tobytes(): the raw pixel buffer, three bytes a pixel.
ToBytes(image) ==
    IF image = <<>> THEN <<>> ELSE Head(image) \o ToBytes(Tail(image))

\* hashlib.md5(image_bytes).hexdigest(): a digest is never the empty string and
\* is taken to be collision free, so it is a word that determines its bytes.
Md5Hex(bytes) == <<Len(bytes)>> \o bytes

\* _image_hash of an image: '' when the pixel buffer is empty.
image_hash_image(image) ==
    LET image_bytes == ToBytes(image)
    IN  IF image_bytes # <<>> THEN Md5Hex(image_bytes) ELSE <<>>

\* _image_hash of a path: the file's text, '' when there is no such file.
image_hash_path(fs, path) ==
    IF fs[path].exists THEN fs[path].text ELSE <<>>

remove_hashes_kept(fs) == fs

\* _remove_hashes: every *.hash file of the image folder is removed.
remove_hashes(fs) == [path \in DOMAIN fs |-> NoHash]

write_image_hash_skipped(fs, path, image) == fs

\* _write_image_hash
write_image_hash(fs, path, image) ==
    [fs EXCEPT ![path] = [exists |-> TRUE, text |-> image_hash_image(image)]]

gate_item_last_wins(acc, item) ==
    LET _a == image_hash_path(acc.fs, item.path)
        _b == image_hash_image(item.image)
    IN  [res |-> (_a # _b),
         fs  |-> IF _a # _b THEN write_image_hash(acc.fs, item.path, item.image)
                 ELSE acc.fs]

gate_item_first_only(acc, item) ==
    LET _a == image_hash_path(acc.fs, item.path)
        _b == image_hash_image(item.image)
    IN  IF _a # _b /\ ~acc.res
        THEN [res |-> TRUE, fs |-> write_image_hash(acc.fs, item.path, item.image)]
        ELSE acc

\* One turn of the loop of _needs_image_update over (path, image).
gate_item(acc, item) ==
    LET _a == image_hash_path(acc.fs, item.path)
        _b == image_hash_image(item.image)
    IN  IF _a # _b
        THEN [res |-> TRUE, fs |-> write_image_hash(acc.fs, item.path, item.image)]
        ELSE acc

RECURSIVE gate_loop(_, _)
gate_loop(acc, _list) ==
    IF _list = <<>> THEN acc ELSE gate_loop(gate_item(acc, Head(_list)), Tail(_list))

\* _needs_image_update(_list): the decision and the fingerprint files after it.
needs_image_update(fs, _list) == gate_loop([res |-> FALSE, fs |-> fs], _list)

\* ----------------------------------------------------------------- images

optimize_pixel_darkens(p, threshold) ==
    IF p[1] <= threshold /\ p[2] <= threshold
    THEN <<p[1] \div 2, p[2] \div 2, p[3] \div 2>>
    ELSE p

optimize_pixel_whitens(p, threshold) ==
    IF p[1] <= threshold /\ p[2] <= threshold THEN Black ELSE White

\* _optimize_im(image, threshold) on one pixel: a pixel whose red and green
\* are both at most the threshold becomes black.
optimize_pixel_at(p, threshold) ==
    IF p[1] <= threshold /\ p[2] <= threshold THEN Black ELSE p

\* _optimize_im(image, threshold)
optimize_im_at(image, threshold) ==
    [i \in DOMAIN image |-> optimize_pixel_at(image[i], threshold)]

\* _optimize_im on one pixel, with the default threshold: grey -> black.
optimize_pixel(p) == optimize_pixel_at(p, Threshold)

\* _optimize_im(image)
optimize_im(image) == optimize_im_at(image, Threshold)

\* image.rotate(180, expand=True) of a one pixel wide image.
upside_down(image) == [i \in DOMAIN image |-> image[Len(image) + 1 - i]]

FloorDiv2(n) == n \div 2

\* Python's int(n / 2): the quotient truncated towards zero.
TruncDiv2(n) == IF n >= 0 THEN n \div 2 ELSE -((-n) \div 2)

\* x = int((section_size[0] - im_size[0]) / 2)
paste_x(section_width, im_width) == TruncDiv2(section_width - im_width)

\* y = int((section_size[1] - im_size[1]) / 2) for the first module,
\* cursor + int((section_size[1] - im_size[1]) / 2) after it.
paste_y(cursor, section_height, im_height) ==
    IF cursor = 0
    THEN TruncDiv2(section_height - im_height)
    ELSE cursor + TruncDiv2(section_height - im_height)

\* canvas.paste(im, (x, y), im) of an opaque image: rows y .. y+height-1 are
\* overwritten, what falls outside the canvas is dropped.
Paste(canvas, im, y) ==
    [i \in DOMAIN canvas |->
        IF y < i /\ i <= y + Len(im) THEN im[i - y] ELSE canvas[i]]

\* Image.new('RGB', (width, height), color='white')
BlankCanvas == [i \in 1 .. DisplayHeight |-> White]

\* -------------------------------------------------------------- settings

\* The declared height of the region of the settings entry at a position.
SectionHeight(position) == IF position % 2 = 1 THEN 2 ELSE 1

\* settings['modules']: MaxModules entries at positions 1, 2, ...; the entry
\* at position `broken` (0: none) names a module that cannot be imported.
ModuleEntries(broken) ==
    [k \in 1 .. MaxModules |->
        [position |-> k, height |-> SectionHeight(k), loads |-> (k # broken)]]

\* The (black, colour) pairs a module's generate_image() returns: one lower
\* than every region, one higher than every region.
ModulePairs ==
    { [black |-> <<Grey>>, colour |-> <<White>>],
      [black |-> <<Black, Grey, Black>>, colour |-> <<Red, White, Red>>] }

\* Where a module's turn in the pass can fault.
FaultPoints == {"generate_image", "black.save", "colour.save"}

\* -------------------------------------------------------------- _assemble

\* section_size[1] of [i for i in settings['modules'] if i['position'] == number][0]
section_height(modules, number) ==
    LET k == Min({ j \in DOMAIN modules : modules[j].position = number })
    IN  modules[k].height

\* One plane's part of a turn of the loop of _assemble: when the module's
\* artifact exists it is pasted, centred in its section, and the cursor is
\* shifted by the section's height.
place(plane, cursor, file, height) ==
    IF file.exists
    THEN [plane  |-> Paste(plane, file.image, paste_y(cursor, height, Len(file.image))),
          cursor |-> cursor + height,
          placed |-> TRUE,
          y      |-> paste_y(cursor, height, Len(file.image))]
    ELSE [plane |-> plane, cursor |-> cursor, placed |-> FALSE, y |-> 0]

RECURSIVE assemble_loop(_, _, _, _, _)
assemble_loop(acc, number, module_number, modules, files) ==
    IF number >= module_number THEN acc
    ELSE LET height == section_height(modules, number)
             b == place(acc.im_black, acc.im1_cursor, files[number].black, height)
             c == place(acc.im_colour, acc.im2_cursor, files[number].colour, height)
         IN  assemble_loop(
                 [im_black   |-> b.plane,
                  im_colour  |-> c.plane,
                  im1_cursor |-> b.cursor,
                  im2_cursor |-> c.cursor,
                  slots      |-> Append(acc.slots,
                                  [number |-> number, height |-> height,
                                   black  |-> [placed |-> b.placed, y |-> b.y,
                                               from |-> acc.im1_cursor, cursor |-> b.cursor],
                                   colour |-> [placed |-> c.placed, y |-> c.y,
                                               from |-> acc.im2_cursor, cursor |-> c.cursor]])],
                 number + 1, module_number, modules, files)

\* _assemble up to the saving of canvas.png and canvas_colour.png (with
\* settings['info_section'] false): the two planes, optimized, the cursors
\* and what was placed where.
assemble(module_number, modules, files) ==
    LET acc == assemble_loop(
                   [im_black |-> BlankCanvas, im_colour |-> BlankCanvas,
                    im1_cursor |-> 0, im2_cursor |-> 0, slots |-> <<>>],
                   1, module_number, modules, files)
    IN  [acc EXCEPT !.im_black = optimize_im(@), !.im_colour = optimize_im(@)]

\* Images.merge(im1, im2) of _merge_bands: the accent plane over the primary
\* plane, the accent's white being transparent.
merge(im1, im2) == [i \in DOMAIN im1 |-> IF im2[i] = White THEN im1[i] ELSE im2[i]]

\* ------------------------------------------------------------------ state

VARIABLES
    pc,                 \* where the process is: "new" (no Inkycal instance yet),
                        \* "loop", "modules", "calibrate", "refresh",
                        \* "sleep" in run(); "raised" (__init__ raised); "crashed",
                        \* "no_canvas", "render_raised" (an exception of a module,
                        \* of the opening of the canvases, of the driver left run())
    render_arg,         \* the render argument of Inkycal(...): "True", "False" or
                        \* something else ("None")
    render,             \* self.render
    settings,           \* the settings file
    now,                \* the wall clock: [hour, minute, second]
    module_number,      \* self._module_number
    loaded,             \* self.module_1, self.module_2, ...: for each the position
                        \* of the settings entry it was built from
    calibration_state,  \* self._calibration_state
    counter,            \* run()'s counter of passes without errors
    errors,             \* run()'s errors list
    info,               \* self.info: the tokens of the status line
    number,             \* the loop variable of the module loop of run()
    files,              \* module{N}_black.png, module{N}_colour.png
    canvas,             \* canvas.png, canvas_colour.png
    hashes,             \* canvas.png.hash, canvas_colour.png.hash
    started,            \* passes this process has begun
    passes,             \* passes begun by all processes
    pass,               \* what the current pass has done so far
    fires,              \* calibrate() calls of this process while the hour stayed the same
    stale,              \* fingerprint files were on disk when the instance was constructed
    clean,              \* passes without a fault since the last pass with one
    gate,               \* the last call of _needs_image_update (SpecGate)
    timer,              \* the last call of countdown (SpecCountdown)
    placing,            \* one placement of a bitmap in a region (SpecPlace)
    opt                 \* an image put through _optimize_im (SpecOptimize)

config == <<render_arg, render, settings>>
memory == <<module_number, loaded, calibration_state, counter, errors, info, number, started>>
disk == <<files, canvas, hashes>>
pure == <<gate, timer, placing, opt>>
vars == <<pc, config, now, memory, disk, passes, pass, fires, stale, clean, pure>>

\* The panels explored: a colour panel mounted upright, a black-white panel
\* mounted upside down.
Panels == { [colour |-> TRUE, orientation |-> 0], [colour |-> FALSE, orientation |-> 180] }

\* The settings files explored: entries for MaxModules modules of which the
\* first may name a module that cannot be imported, a 20 minute update
\* interval, calibration at hour 0, the fingerprint gate on or off.
SettingsFiles ==
    { [modules           |-> ModuleEntries(broken),
       update_interval   |-> 20,
       calibration_hours |-> {0},
       image_hash        |-> image_hash,
       colour            |-> panel.colour,
       orientation       |-> panel.orientation] :
        broken \in {0, 1}, image_hash \in BOOLEAN, panel \in Panels }

\* The times of day at which a process is started.
StartTimes ==
    { [hour |-> 0, minute |-> 0, second |-> 0],
      [hour |-> 23, minute |-> 41, second |-> 30] }

NoPass ==
    [invoked |-> <<>>, assembled |-> FALSE, same |-> FALSE, slots |-> <<>>,
     im1_cursor |-> 0, im2_cursor |-> 0,
     faulted |-> FALSE, calibrated |-> 0, unread |-> FALSE, gated |-> FALSE,
     differed |-> FALSE, changed |-> FALSE, rendered |-> 0]

NoGate == [called |-> FALSE, list |-> <<>>, before |-> [p \in HashPaths |-> NoHash],
           res |-> FALSE, fresh |-> FALSE, repeat |-> FALSE, prev_res |-> FALSE]
NoTimer == [interval_mins |-> 20, r |-> 0, stepped |-> FALSE,
            from |-> [hour |-> 0, minute |-> 0, second |-> 0]]
NoPlacing == [region |-> <<1, 1>>, size |-> <<1, 1>>, cursor |-> 0,
              x |-> 0, y |-> 0, done |-> FALSE]
NoOpt == [image |-> <<>>, threshold |-> Threshold, once |-> <<>>, out |-> <<>>,
          applied |-> 0]

InitMemory ==
    /\ module_number = 1
    /\ loaded = <<>>
    /\ calibration_state = FALSE
    /\ counter = 0
    /\ errors = <<>>
    /\ info = <<>>
    /\ number = 1
    /\ started = 0

\* The loop over settings['modules']: _module_number ends one above the number
\* of entries whose module could be imported and set up.
load_modules(modules) ==
    1 + Cardinality({ k \in DOMAIN modules : modules[k].loads })

\* The same loop: the entries whose module could be imported and set up, in
\* the order of the settings; the k-th of them becomes self.module_k.
loaded_entries(modules) ==
    LET kept == SelectSeq([k \in DOMAIN modules |-> modules[k]], LAMBDA e : e.loads)
    IN  [k \in 1 .. Len(kept) |-> kept[k].position]

\* _merge_bands: the merged canvas, or FileNotFoundError without canvas.png.
merge_bands(cv) ==
    IF cv.black.exists /\ cv.colour.exists
    THEN [ok |-> TRUE, image |-> merge(cv.black.image, cv.colour.image)]
    ELSE IF cv.black.exists
         THEN [ok |-> TRUE, image |-> cv.black.image]
         ELSE [ok |-> FALSE, image |-> <<>>]

\* upside_down(image) when settings['orientation'] is 180.
oriented(image, orientation) ==
    IF orientation = 180 THEN upside_down(image) ELSE image

\* The (fingerprint path, image) list run() hands to _needs_image_update.
candidates(cv, colour, orientation) ==
    IF colour
    THEN << [path |-> "canvas.png.hash", image |-> oriented(cv.black.image, orientation)],
            [path |-> "canvas_colour.png.hash",
             image |-> oriented(cv.colour.image, orientation)] >>
    ELSE << [path |-> "canvas.png.hash",
             image |-> oriented(merge_bands(cv).image, orientation)] >>

\* An empty image folder.
EmptyFolder ==
    [files  |-> [k \in 1 .. MaxModules |-> [black |-> NoImage, colour |-> NoImage]],
     canvas |-> [black |-> NoImage, colour |-> NoImage],
     hashes |-> [p \in HashPaths |-> NoHash]]

Saved(image) == [exists |-> TRUE, image |-> image]

\* The image folder an earlier process of the same settings file (rendering,
\* with the fingerprint gate on) left after a pass in which every loaded
\* module returned the pair `pair`.
LeftFolder(s, pair) ==
    LET n  == load_modules(s.modules)
        fl == [k \in 1 .. MaxModules |->
                 IF k < n THEN [black |-> Saved(pair.black), colour |-> Saved(pair.colour)]
                 ELSE [black |-> NoImage, colour |-> NoImage]]
        a  == assemble(n, s.modules, fl)
        cv == [black |-> Saved(a.im_black), colour |-> Saved(a.im_colour)]
    IN  [files  |-> fl,
         canvas |-> cv,
         hashes |-> needs_image_update(EmptyFolder.hashes,
                        candidates(cv, s.colour, s.orientation)).fs]

FirstPair == [black |-> <<Grey>>, colour |-> <<White>>]

InitGhost ==
    /\ passes = 0
    /\ pass = NoPass
    /\ fires = [hour |-> -1, count |-> 0]
    /\ stale = FALSE
    /\ clean = 0

\* What is passed as render: True, False, or something that is neither.
RenderArgs == {"True", "False", "None"}

\* A process is about to start, over an empty image folder or over the one an
\* earlier process left.  Without render the panel is never read.
Init ==
    /\ pc = "new"
    /\ render_arg \in RenderArgs
    /\ render = (render_arg = "True")
    /\ settings \in SettingsFiles
    /\ render = FALSE => settings.colour
    /\ now \in StartTimes
    /\ InitMemory /\ InitGhost
    /\ \E folder \in {EmptyFolder, LeftFolder(settings, FirstPair)} :
         /\ files = folder.files
         /\ canvas = folder.canvas
         /\ hashes = folder.hashes
    /\ gate = NoGate
    /\ timer = NoTimer
    /\ placing = NoPlacing
    /\ opt = NoOpt

\* --------------------------------------------------------------- __init__

\* render not in [True, False]: the check at the top of __init__.
render_valid(arg) == arg \in {"True", "False"}

\* Inkycal(settings_path, render): a process starts and constructs the instance
\* over whatever image folder is there, or __init__ raises on the render
\* argument.  An entry whose module cannot be imported is printed and skipped.
Construct ==
    /\ pc = "new"
    /\ IF render_valid(render_arg)
       THEN /\ module_number' = load_modules(settings.modules)
            /\ loaded' = loaded_entries(settings.modules)
            /\ calibration_state' = FALSE
            /\ hashes' = remove_hashes(hashes)
            /\ stale' = (\E p \in HashPaths : hashes[p].exists)
            /\ started' = 0
            /\ fires' = [hour |-> -1, count |-> 0]
            /\ pc' = "loop"
       ELSE /\ pc' = "raised"
            /\ UNCHANGED <<module_number, loaded, calibration_state, hashes, stale,
                           started, fires>>
    /\ UNCHANGED <<config, now, counter, errors, info, number, files, canvas,
                   passes, pass, clean, pure>>

\* -------------------------------------------------------------------- run

\* The top of the while loop: the errors list and the status line are reset.
LoopTop ==
    /\ passes < MaxPasses
    /\ errors' = <<>>
    /\ info' = IF settings.image_hash THEN <<>>
               ELSE << [module |-> 0, text |-> "D MMM @ HH:mm"] >>
    /\ number' = 1
    /\ started' = started + 1
    /\ passes' = passes + 1
    /\ pass' = NoPass
    /\ pc' = "modules"

\* run() enters the loop: the first pass begins.
PassStart ==
    /\ pc = "loop"
    /\ LoopTop
    /\ UNCHANGED <<config, now, module_number, loaded, calibration_state, counter,
                   disk, fires, stale, clean, pure>>

\* A module's turn without a fault: both images are saved.
RunModuleOk ==
    /\ pc = "modules"
    /\ number < module_number
    /\ \E pair \in ModulePairs :
         files' = [files EXCEPT ![number] =
                      [black |-> Saved(pair.black), colour |-> Saved(pair.colour)]]
    /\ info' = Append(info, [module |-> number, text |-> "OK"])
    /\ number' = number + 1
    /\ pass' = [pass EXCEPT !.invoked = Append(@, number)]
    /\ UNCHANGED <<pc, config, now, module_number, loaded, calibration_state, counter,
                   errors, started, canvas, hashes, passes, fires, stale, clean, pure>>

\* The pairs a module had generated when a save of its turn faulted.
FaultPairs == {FirstPair}

catches_generate_only(point) == point = "generate_image"

\* The bare except: of the module loop catches a fault wherever in the try
\* block it is raised.
catches(point) == TRUE

\* A module's turn with a fault: in generate_image, in black.save or, the
\* black image saved, in colour.save.
RunModuleFault ==
    /\ pc = "modules"
    /\ number < module_number
    /\ \E point \in FaultPoints, pair \in FaultPairs :
         /\ files' = IF point = "colour.save"
                     THEN [files EXCEPT ![number].black = Saved(pair.black)]
                     ELSE files
         /\ IF catches(point)
            THEN /\ errors' = Append(errors, number)
                 /\ info' = Append(info, [module |-> number, text |-> "error!"])
                 /\ number' = number + 1
                 /\ pc' = pc
            ELSE /\ pc' = "crashed"
                 /\ UNCHANGED <<errors, info, number>>
    /\ pass' = [pass EXCEPT !.invoked = Append(@, number), !.faulted = TRUE]
    /\ UNCHANGED <<config, now, module_number, loaded, calibration_state, counter,
                   started, canvas, hashes, passes, fires, stale, clean, pure>>

count_pass_never_reset(errs, n) == n + 1

\* The counter kept after the module loop: reset on errors, incremented otherwise.
count_pass(errs, n) == IF errs # <<>> THEN 0 ELSE n + 1

after_assemble_renders(rendering) == "calibrate"

\* if self.render: the calibration check and the render part are run only
\* when render is set; otherwise the pass goes straight to the countdown.
after_assemble(rendering) == IF rendering THEN "calibrate" ELSE "sleep"

\* After the module loop: the counter is updated and self._assemble() saves
\* the two canvases.
Assemble ==
    /\ pc = "modules"
    /\ number >= module_number
    /\ counter' = count_pass(errors, counter)
    /\ clean' = IF pass.faulted THEN 0 ELSE clean + 1
    /\ LET a == assemble(module_number, settings.modules, files)
       IN  /\ canvas' = [black |-> Saved(a.im_black), colour |-> Saved(a.im_colour)]
           /\ pass' = [pass EXCEPT !.assembled = TRUE,
                                   !.same = (canvas' = canvas),
                                   !.slots = a.slots,
                                   !.im1_cursor = a.im1_cursor,
                                   !.im2_cursor = a.im2_cursor]
    /\ pc' = after_assemble(render)
    /\ UNCHANGED <<config, now, module_number, loaded, calibration_state, errors, info,
                   number, started, files, hashes, passes, fires, stale, pure>>

\* _calibration_check: calibration is due when the hour is a calibration hour
\* and the state is False; the state becomes True then and False otherwise.
calibration_check(hour, calibration_hours, state) ==
    IF hour \in calibration_hours /\ state = FALSE
    THEN [calibrate |-> TRUE, state |-> TRUE]
    ELSE [calibrate |-> FALSE, state |-> FALSE]

hashes_after_check_kept(fs, state) == fs

\* After _calibration_check: the fingerprints are removed when the state is set.
hashes_after_check(fs, state) == IF state THEN remove_hashes(fs) ELSE fs

\* self._calibration_check() and the removal of the fingerprints after it.
CalibrationCheck ==
    /\ pc = "calibrate"
    /\ LET c == calibration_check(now.hour, settings.calibration_hours, calibration_state)
           n == IF c.calibrate THEN 1 ELSE 0
       IN  /\ calibration_state' = c.state
           /\ hashes' = hashes_after_check(hashes, c.state)
           /\ pass' = [pass EXCEPT !.calibrated = @ + n,
                                   !.changed = (hashes' # hashes)]
           /\ fires' = IF fires.hour = now.hour
                       THEN [fires EXCEPT !.count = @ + n]
                       ELSE [hour |-> now.hour, count |-> n]
    /\ pc' = "refresh"
    /\ UNCHANGED <<config, now, module_number, loaded, counter, errors, info, number,
                   started, files, canvas, passes, stale, clean, pure>>

refresh_decision_gate_always(fs, image_hash, _list) == needs_image_update(fs, _list)

\* not settings.get('image_hash', False) or self._needs_image_update([...])
refresh_decision(fs, image_hash, _list) ==
    IF ~image_hash THEN [res |-> TRUE, fs |-> fs] ELSE needs_image_update(fs, _list)

\* Image.open of the two canvases for a colour panel, _merge_bands() for a
\* black-white one: whether the planes could be read; FileNotFoundError
\* otherwise.
planes_read(cv, colour) ==
    IF colour THEN cv.black.exists /\ cv.colour.exists ELSE merge_bands(cv).ok

\* What a call of display.render() does: it returns, or the driver raises.
RenderOutcomes == {"returns", "raises"}

\* Where run() is after the render part: asleep, or left by the exception of
\* the driver.
after_render(invoked, outcome) ==
    IF invoked /\ outcome = "raises" THEN "render_raised" ELSE "sleep"

\* The render part of a pass: the planes are read, turned when the panel is
\* upside down, and rendered if the gate is off or asks for a refresh.  No
\* handler is around it: an exception raised here leaves run().
Refresh ==
    /\ pc = "refresh"
    /\ IF ~planes_read(canvas, settings.colour)
       THEN /\ pc' = "no_canvas"
            /\ pass' = [pass EXCEPT !.unread = TRUE]
            /\ UNCHANGED hashes
       ELSE LET _list == candidates(canvas, settings.colour, settings.orientation)
                d == refresh_decision(hashes, settings.image_hash, _list)
            IN  /\ hashes' = d.fs
                /\ \E outcome \in RenderOutcomes :
                     /\ d.res \/ outcome = "returns"
                     /\ pc' = after_render(d.res, outcome)
                /\ pass' = [pass EXCEPT
                              !.gated = settings.image_hash,
                              !.differed =
                                  \E i \in 1 .. Len(_list) :
                                      image_hash_image(_list[i].image)
                                          # image_hash_path(hashes, _list[i].path),
                              !.changed = @ \/ (d.fs # hashes),
                              !.rendered = @ + (IF d.res THEN 1 ELSE 0)]
    /\ UNCHANGED <<config, now, memory, files, canvas, passes, fires, stale, clean, pure>>

\* Something else than the program removes the two canvases between their
\* saving by _assemble and their opening by run(); explored for the
\* black-white panel, whose canvases go through _merge_bands.
CanvasRemoved ==
    /\ pc = "refresh"
    /\ ~settings.colour
    /\ canvas.black.exists
    /\ canvas' = EmptyFolder.canvas
    /\ UNCHANGED <<pc, config, now, memory, files, hashes, passes, pass, fires,
                   stale, clean, pure>>

\* sleep_time = self.countdown(); time.sleep(sleep_time), and the loop goes
\* round: the next pass begins at the time slept to.
Sleep ==
    /\ pc = "sleep"
    /\ now' = Advance(now, countdown(settings.update_interval, now))
    /\ LoopTop
    /\ UNCHANGED <<config, module_number, loaded, calibration_state, counter,
                   disk, fires, stale, clean, pure>>

Next ==
    \/ Construct
    \/ PassStart
    \/ RunModuleOk
    \/ RunModuleFault
    \/ Assemble
    \/ CalibrationCheck
    \/ Refresh
    \/ CanvasRemoved
    \/ Sleep

Spec == Init /\ [][Next]_vars

\* ------------------------------------------- the fingerprint gate on its own

RECURSIVE ImagesOfHeight(_)
\* The black and white images of a height.
ImagesOfHeight(h) ==
    IF h = 0 THEN { <<>> }
    ELSE { <<p>> \o im : p \in {White, Black}, im \in ImagesOfHeight(h - 1) }

GateImages == UNION { ImagesOfHeight(h) : h \in 0 .. MaxRows }

\* What can be at a fingerprint path: nothing, or the fingerprint of an image.
StoredHashes ==
    {NoHash} \cup { [exists |-> TRUE, text |-> image_hash_image(im)] : im \in GateImages }

\* The lists handed to the gate, as in the two calls of run(): the primary
\* plane alone, or the primary plane and then the accent plane.
GateLists ==
    { << [path |-> "canvas.png.hash", image |-> im] >> : im \in GateImages }
    \cup
    { << [path |-> "canvas.png.hash", image |-> im],
         [path |-> "canvas_colour.png.hash", image |-> jm] >> :
        im \in GateImages, jm \in GateImages }

FixedSettings ==
    [modules |-> ModuleEntries(0), update_interval |-> 20, calibration_hours |-> {0},
     image_hash |-> TRUE, colour |-> TRUE, orientation |-> 0]

Midnight == [hour |-> 0, minute |-> 0, second |-> 0]

InitGate ==
    /\ pc = "gate"
    /\ render_arg = "True" /\ render = TRUE
    /\ settings = FixedSettings
    /\ now = Midnight
    /\ InitMemory /\ InitGhost
    /\ files = EmptyFolder.files
    /\ canvas = EmptyFolder.canvas
    /\ hashes \in [HashPaths -> StoredHashes]
    /\ gate = NoGate
    /\ timer = NoTimer
    /\ placing = NoPlacing
    /\ opt = NoOpt

\* self._needs_image_update(_list)
GateCall ==
    /\ pc = "gate"
    /\ \E _list \in GateLists :
         LET d == needs_image_update(hashes, _list)
         IN  /\ hashes' = d.fs
             /\ gate' = [called   |-> TRUE,
                         list     |-> _list,
                         before   |-> hashes,
                         res      |-> d.res,
                         fresh    |-> TRUE,
                         repeat   |-> (gate.fresh /\ gate.list = _list),
                         prev_res |-> gate.res]
    /\ UNCHANGED <<pc, config, now, memory, files, canvas, passes, pass, fires,
                   stale, clean, timer, placing, opt>>

\* Between two calls the fingerprint files are removed (as after a calibration).
GateRemove ==
    /\ pc = "gate"
    /\ gate.fresh
    /\ hashes' = remove_hashes(hashes)
    /\ gate' = [gate EXCEPT !.fresh = FALSE]
    /\ UNCHANGED <<pc, config, now, memory, files, canvas, passes, pass, fires,
                   stale, clean, timer, placing, opt>>

NextGate == GateCall \/ GateRemove

SpecGate == InitGate /\ [][NextGate]_vars

\* ---------------------------------------------------- countdown on its own

InitCountdown ==
    /\ pc = "countdown"
    /\ render_arg = "True" /\ render = TRUE
    /\ settings = FixedSettings
    /\ now \in { [hour |-> 23, minute |-> m, second |-> sec] : m \in 0 .. 59, sec \in 0 .. 59 }
    /\ InitMemory /\ InitGhost
    /\ files = EmptyFolder.files
    /\ canvas = EmptyFolder.canvas
    /\ hashes = EmptyFolder.hashes
    /\ gate = NoGate
    /\ placing = NoPlacing
    /\ opt = NoOpt
    /\ \E interval_mins \in 1 .. 60 :
         timer = [interval_mins |-> interval_mins, r |-> 0, stepped |-> FALSE, from |-> now]

\* sleep_time = self.countdown(interval_mins); time.sleep(sleep_time)
CountdownStep ==
    /\ pc = "countdown"
    /\ LET r == countdown(timer.interval_mins, now)
       IN  /\ now' = Advance(now, r)
           /\ timer' = [timer EXCEPT !.r = r, !.stepped = TRUE, !.from = now]
    /\ UNCHANGED <<pc, config, memory, disk, passes, pass, fires, stale, clean,
                   gate, placing, opt>>

NextCountdown == CountdownStep

SpecCountdown == InitCountdown /\ [][NextCountdown]_vars

\* ----------------------------------------------- one placement on its own

\* The placements explored: a region, a bitmap smaller than it, of its size
\* or larger in either direction, and the cursor it is placed from.
Placements ==
    { [region |-> <<rw, rh>>, size |-> <<w, h>>, cursor |-> c,
       x |-> 0, y |-> 0, done |-> FALSE] :
        rw \in 1 .. MaxSide, rh \in 1 .. MaxSide,
        w \in 1 .. (MaxSide + 1), h \in 1 .. (MaxSide + 1), c \in 0 .. MaxSide }

InitPlace ==
    /\ pc = "place"
    /\ render_arg = "True" /\ render = TRUE
    /\ settings = FixedSettings
    /\ now = Midnight
    /\ InitMemory /\ InitGhost
    /\ files = EmptyFolder.files
    /\ canvas = EmptyFolder.canvas
    /\ hashes = EmptyFolder.hashes
    /\ gate = NoGate
    /\ timer = NoTimer
    /\ opt = NoOpt
    /\ placing \in Placements

\* The coordinates _assemble computes for one bitmap.
PlaceStep ==
    /\ pc = "place"
    /\ ~placing.done
    /\ placing' = [placing EXCEPT
                      !.x = paste_x(placing.region[1], placing.size[1]),
                      !.y = paste_y(placing.cursor, placing.region[2], placing.size[2]),
                      !.done = TRUE]
    /\ UNCHANGED <<pc, config, now, memory, disk, passes, pass, fires, stale, clean,
                   gate, timer, opt>>

NextPlace == PlaceStep

SpecPlace == InitPlace /\ [][NextPlace]_vars

\* --------------------------------------------------- _optimize_im on its own

\* The values a channel of a pixel takes, around the default threshold.
Channels == {0, 220, 221, 255}

RECURSIVE RgbImages(_)
\* The RGB images of a height.
RgbImages(h) ==
    IF h = 0 THEN { <<>> }
    ELSE { << <<r, g, b>> >> \o im :
             r \in Channels, g \in Channels, b \in Channels, im \in RgbImages(h - 1) }

\* The images handed to _optimize_im.
OptImages == UNION { RgbImages(h) : h \in 0 .. MaxRows }

\* The thresholds passed: below, at and above every channel value.
Thresholds == {-1, 0, 219, 220, 255, 256}

InitOptimize ==
    /\ pc = "optimize"
    /\ render_arg = "True" /\ render = TRUE
    /\ settings = FixedSettings
    /\ now = Midnight
    /\ InitMemory /\ InitGhost
    /\ files = EmptyFolder.files
    /\ canvas = EmptyFolder.canvas
    /\ hashes = EmptyFolder.hashes
    /\ gate = NoGate
    /\ timer = NoTimer
    /\ placing = NoPlacing
    /\ \E image \in OptImages, threshold \in Thresholds :
         opt = [image |-> image, threshold |-> threshold, once |-> <<>>,
                out |-> image, applied |-> 0]

\* _optimize_im applied to the image, then to what it returned.
OptimizeStep ==
    /\ pc = "optimize"
    /\ opt.applied < 2
    /\ LET r == optimize_im_at(opt.out, opt.threshold)
       IN  opt' = [opt EXCEPT !.out = r,
                              !.once = IF opt.applied = 0 THEN r ELSE @,
                              !.applied = @ + 1]
    /\ UNCHANGED <<pc, config, now, memory, disk, passes, pass, fires, stale, clean,
                   gate, timer, placing>>

NextOptimize == OptimizeStep

SpecOptimize == InitOptimize /\ [][NextOptimize]_vars

\* ------------------------------------------------------------ properties

\* C1: in every pass each loaded module is invoked exactly once, in the order
\* 1 .. N; a fault of a module never aborts the pass: the later modules are
\* invoked and the pass goes on to _assemble.
C1_EveryModuleInvoked ==
    /\ pc # "crashed"
    /\ pc = "modules" => pass.invoked = [k \in 1 .. (number - 1) |-> k]
    /\ pc \in {"calibrate", "refresh", "sleep"} =>
          /\ pass.invoked = [k \in 1 .. (module_number - 1) |-> k]
          /\ pass.assembled

\* A pass of two modules in which the first faulted has invoked the second
\* and assembled the canvas.
C1_Witness ==
    /\ pc = "sleep"
    /\ errors # <<>> /\ errors[1] = 1
    /\ pass.invoked = <<1, 2>>
    /\ pass.assembled

\* C2: while the hour stays at one due hour, calibrate() is invoked in at most
\* one pass.
C2_AtMostOncePerHour == fires.count <= 1

\* C3: in a pass in which calibration fires, no fingerprint file is left when
\* the refresh decision is taken, and render() is invoked in that pass.
C3_CalibrationForcesRefresh ==
    /\ (pc = "refresh" /\ pass.calibrated > 0) =>
          \A p \in HashPaths : ~hashes[p].exists
    /\ (pc = "sleep" /\ pass.calibrated > 0) => pass.rendered = 1

\* Calibration fired in a later pass of a process, with the gate on and the
\* canvases identical to those of the pass before: render() was invoked.
C3_Witness ==
    /\ pc = "sleep"
    /\ started >= 2
    /\ settings.image_hash
    /\ pass.calibrated = 1
    /\ pass.same
    /\ pass.rendered = 1

\* C4: for an interval dividing 60, countdown returns r with
\* 0 <= r < interval_mins * 60.
C4_CountdownInRange ==
    (timer.stepped /\ 60 % timer.interval_mins = 0) =>
        (0 <= timer.r /\ timer.r < timer.interval_mins * 60)

\* C5: for an interval dividing 60, the clock advanced by what countdown
\* returns is on an update boundary: the minute a multiple of the interval, the
\* second 0; also when the step is repeated from there.
C5_LandsOnBoundary ==
    (timer.stepped /\ 60 % timer.interval_mins = 0) =>
        (now.minute % timer.interval_mins = 0 /\ now.second = 0)

\* C6: the gate called twice in a row on the same candidates, the fingerprint
\* files not touched in between, returns False the second time.
C6_SecondCallNoRefresh == gate.repeat => gate.res = FALSE

\* The first of the two calls asked for a refresh, the second did not.
C6_Witness == gate.repeat /\ gate.prev_res /\ ~gate.res

\* An image of the height of `a` that differs from it in exactly one pixel.
OnePixelApart(a, b) ==
    /\ Len(a) = Len(b)
    /\ Cardinality({ i \in 1 .. Len(a) : a[i] # b[i] }) = 1

\* The candidates of a list whose digest differs from what the files `fs` store.
Differing(fs, _list) ==
    { i \in 1 .. Len(_list) :
        image_hash_image(_list[i].image) # image_hash_path(fs, _list[i].path) }

\* A candidate of the list is one pixel apart from the image whose digest
\* `fs` stores at its path.
OnePixelChanged(fs, _list) ==
    \E i \in 1 .. Len(_list), im \in GateImages :
        /\ fs[_list[i].path] = [exists |-> TRUE, text |-> image_hash_image(im)]
        /\ OnePixelApart(im, _list[i].image)

\* C7: the gate returns True exactly when the digest of at least one candidate
\* differs from the digest stored at its path; so it does when a candidate is
\* one pixel apart from the image whose digest is stored.
C7_RefreshIffDiffers ==
    gate.called =>
        /\ gate.res = (Differing(gate.before, gate.list) # {})
        /\ OnePixelChanged(gate.before, gate.list) => gate.res

\* Only the first of two candidates differed, by one pixel: refresh needed.
C7_Witness ==
    /\ gate.called
    /\ Differing(gate.before, gate.list) = {1}
    /\ Len(gate.list) = 2
    /\ OnePixelChanged(gate.before, gate.list)
    /\ gate.res

\* C8: after a call of the gate every candidate's stored digest is the digest
\* of its image: that of every differing candidate was overwritten, the file
\* of every other candidate is as it was.
C8_AllDifferingOverwritten ==
    gate.fresh =>
        \A i \in 1 .. Len(gate.list) :
            /\ image_hash_path(hashes, gate.list[i].path)
                  = image_hash_image(gate.list[i].image)
            /\ i \notin Differing(gate.before, gate.list) =>
                  hashes[gate.list[i].path] = gate.before[gate.list[i].path]

\* Both candidates differed from fingerprints that were stored, and both
\* fingerprints were overwritten.
C8_Witness ==
    /\ gate.fresh
    /\ Differing(gate.before, gate.list) = {1, 2}
    /\ \A p \in HashPaths : gate.before[p].exists /\ hashes[p] # gate.before[p]

\* C9: no fingerprint file is left when an instance has been constructed, and
\* with render and the gate on the first pass of run() invokes render().
C9_FirstPassRenders ==
    /\ (pc = "loop" /\ started = 0) => \A p \in HashPaths : ~hashes[p].exists
    /\ (pc = "sleep" /\ started = 1 /\ render /\ settings.image_hash) =>
          pass.rendered = 1

\* The first pass of a process that found fingerprints on disk and composed
\* the very canvases they were taken from, without calibration: render() was
\* invoked.
C9_Witness ==
    /\ pc = "sleep"
    /\ started = 1
    /\ stale
    /\ render /\ settings.image_hash
    /\ pass.same
    /\ pass.calibrated = 0
    /\ pass.rendered = 1

RECURSIVE SumOfHeights(_, _)
\* The declared heights of the sections 1 .. k added up.
SumOfHeights(modules, k) ==
    IF k = 0 THEN 0 ELSE SumOfHeights(modules, k - 1) + section_height(modules, k)

\* C10: in _assemble each plane's cursor after module k is the sum of the
\* declared heights of the sections 1 .. k, whatever the size of the images
\* and whether or not a module failed.
C10_CursorIsSumOfHeights ==
    pass.assembled =>
        \A k \in 1 .. Len(pass.slots) :
            /\ pass.slots[k].black.cursor = SumOfHeights(settings.modules, k)
            /\ pass.slots[k].colour.cursor = SumOfHeights(settings.modules, k)

\* C11: in the canvas composed in a pass nothing is pasted in the slot of a
\* module that faulted in that pass: the slot is left to the background on
\* both planes, whatever artifacts of the module are on disk.
C11_FaultedSlotBlank ==
    pass.assembled =>
        \A k \in 1 .. Len(pass.slots) :
            (\E e \in 1 .. Len(errors) : errors[e] = pass.slots[k].number) =>
                /\ ~pass.slots[k].black.placed
                /\ ~pass.slots[k].colour.placed

\* The tokens of the status line that name a module, in the order written.
ModuleTokens == SelectSeq(info, LAMBDA t : t.module # 0)

\* C12: the status line built in a pass holds exactly one token per loaded
\* module, in the order 1 .. N: "module N: OK" for a module that succeeded,
\* "module N: Error!" for one that faulted.
C12_StatusTokens ==
    pc \in {"calibrate", "refresh", "sleep"} =>
        ModuleTokens =
            [k \in 1 .. (module_number - 1) |->
                [module |-> k,
                 text   |-> IF \E e \in 1 .. Len(errors) : errors[e] = k
                            THEN "Error!" ELSE "OK"]]

\* C13: run()'s counter is 0 when the loop is entered, is 0 after a pass in
\* which a module faulted and one higher after a pass without a fault: it is
\* the number of passes without a fault since the last pass with one.
C13_CounterIsCleanStreak ==
    /\ counter = clean
    /\ started = 0 => counter = 0
    /\ (pass.assembled /\ pass.faulted) => counter = 0
    /\ (pass.assembled /\ ~pass.faulted) => (counter >= 1 /\ counter <= started)

\* The third pass of a process was without a fault, the second was not.
C13_Witness ==
    /\ pc = "sleep"
    /\ started = 3
    /\ ~pass.faulted
    /\ counter = 1

\* C14: with render on and the fingerprint gate off, every pass that comes
\* to the refresh decision invokes render() exactly once, whether or not
\* anything changed since the pass before.
C14_GateOffAlwaysRenders ==
    (render /\ ~settings.image_hash /\ pc \in {"sleep", "render_raised"}) =>
        pass.rendered = 1

\* A later pass of a process with the gate off composed the very canvases of
\* the pass before, no calibration fired, and render() was invoked.
C14_Witness ==
    /\ pc = "sleep"
    /\ render /\ ~settings.image_hash
    /\ started >= 2
    /\ pass.same
    /\ pass.calibrated = 0
    /\ pass.rendered = 1

\* C15: when render() raises in a pass, the fingerprints on disk are not those
\* of the planes of that pass: the gate, asked again about the same planes,
\* says that a refresh is needed.
C15_FailedRenderLeavesStale ==
    (pc = "render_raised" /\ settings.image_hash) =>
        needs_image_update(hashes,
            candidates(canvas, settings.colour, settings.orientation)).res

\* The process is in the loop of run().
InLoop == pc \in {"loop", "modules", "calibrate", "refresh", "sleep"}

\* C16: a pass in which _merge_bands finds no canvas.png is abandoned, and the
\* process stays in the loop of run().
C16_LoopSurvivesMerge == (pass.unread /\ ~settings.colour) => InLoop

\* C17: the construction of an instance fails whenever the render argument
\* is neither True nor False or an entry of the settings names a module that
\* cannot be imported; no such entry is skipped.
C17_InvalidConfigFails ==
    (/\ pc # "new"
     /\ \/ render_arg \notin {"True", "False"}
        \/ \E k \in DOMAIN settings.modules : ~settings.modules[k].loads)
    => (pc = "raised" /\ started = 0)

\* q is d / 2 rounded towards zero.
HalfTowardsZero(d, q) ==
    \/ 2 * q = d
    \/ d > 0 /\ 2 * q = d - 1
    \/ d < 0 /\ 2 * q = d + 1

\* C18 as stated: a bitmap is pasted at x = floor((region width - bitmap
\* width) / 2), y = cursor + floor((region height - bitmap height) / 2),
\* whatever its size: smaller than the region, equal to it or larger.
C18_PasteAtFloor ==
    placing.done =>
        /\ placing.x = (placing.region[1] - placing.size[1]) \div 2
        /\ placing.y = placing.cursor + ((placing.region[2] - placing.size[2]) \div 2)

\* C18, amended: a bitmap is pasted at x = (region width - bitmap width) / 2
\* and y = cursor + (region height - bitmap height) / 2, each quotient rounded
\* towards zero, whatever its size; that is the floor for a bitmap that is not
\* larger than the region in that direction.
C18_PasteTowardsZero ==
    placing.done =>
        LET dx == placing.region[1] - placing.size[1]
            dy == placing.region[2] - placing.size[2]
        IN  /\ HalfTowardsZero(dx, placing.x)
            /\ HalfTowardsZero(dy, placing.y - placing.cursor)
            /\ dx >= 0 => placing.x = dx \div 2
            /\ dy >= 0 => placing.y = placing.cursor + (dy \div 2)

\* A bitmap one wider and one higher than its region, placed from a cursor
\* below the top: pasted at x = 0 and y = cursor, where the floor gives -1
\* and cursor - 1.
C18_Witness ==
    /\ placing.done
    /\ placing.size[1] = placing.region[1] + 1
    /\ placing.size[2] = placing.region[2] + 1
    /\ placing.cursor > 0
    /\ placing.x = 0
    /\ placing.y = placing.cursor

\* C19: _optimize_im applied to its own result returns that result: for every
\* image and threshold, twice is the same as once.
C19_OptimizeIdempotent == opt.applied = 2 => opt.out = opt.once

\* An image that the first application changed, put through a second time.
C19_Witness ==
    /\ opt.applied = 2
    /\ opt.once # opt.image
    /\ opt.out = opt.once

\* C20: with render and the fingerprint gate on, a pass that comes to the
\* refresh decision invokes render() exactly when the digest of at least one
\* of the planes handed to the gate (turned if the panel is upside down)
\* differs from the digest stored for it at that moment; and the fingerprint
\* files change only in a pass that invokes render().
C20_RenderIffDigestDiffers ==
    (render /\ settings.image_hash /\ pc \in {"sleep", "render_raised"}) =>
        /\ pass.rendered = (IF pass.differed THEN 1 ELSE 0)
        /\ pass.changed => pass.rendered = 1

\* A later pass of a process, without calibration, found a differing digest,
\* stored it and rendered.
C20_Witness ==
    /\ pc = "sleep"
    /\ render /\ settings.image_hash
    /\ started >= 2
    /\ pass.calibrated = 0
    /\ pass.differed /\ pass.changed
    /\ pass.rendered = 1

C22_ModuleNFromEntryN ==
    pc \notin {"new", "raised"} =>
        /\ Len(loaded) = module_number - 1
        /\ \A N \in 1 .. Len(loaded) : loaded[N] = N

\* C23: for every interval of 1 .. 60 minutes and every minute and second of
\* the clock, the list of update minutes holds a minute that is not before the
\* current one, and countdown returns more than 0 seconds.
C23_CountdownPositive ==
    /\ pc = "countdown" =>
          \E m \in UpdateTimings(timer.interval_mins) : m >= now.minute
    /\ timer.stepped =>
          /\ \E m \in UpdateTimings(timer.interval_mins) : m >= timer.from.minute
          /\ timer.r > 0

\* An interval that does not divide 60, the clock on one of its update
\* minutes at second 59: countdown returned 1.
C23_Witness ==
    /\ timer.stepped
    /\ timer.interval_mins = 7
    /\ timer.from.minute \in UpdateTimings(7)
    /\ timer.from.second = 59
    /\ timer.r = 1

\* C24: in a process constructed with render=False no pass invokes render()
\* or calibrate(), the calibration state stays as it was, and no fingerprint
\* file is written: the folder stays as __init__ left it, without any.
C24_NoRenderNoEffects ==
    (render_arg = "False" /\ pc \notin {"new", "raised"}) =>
        /\ pc \notin {"calibrate", "refresh", "no_canvas", "render_raised"}
        /\ pass.rendered = 0
        /\ pass.calibrated = 0 /\ fires.count = 0
        /\ calibration_state = FALSE
        /\ ~pass.gated /\ ~pass.changed
        /\ \A p \in HashPaths : ~hashes[p].exists

\* A second pass without render, in a calibration hour and with the gate
\* set in the settings: the modules ran and the canvases were saved.
C24_Witness ==
    /\ pc = "sleep"
    /\ render_arg = "False"
    /\ started >= 2
    /\ settings.image_hash
    /\ now.hour \in settings.calibration_hours
    /\ pass.assembled
    /\ canvas.black.exists /\ canvas.colour.exists
    /\ \E k \in 1 .. MaxModules : files[k].black.exists

\* C25: in _assemble the cursor of the black plane and the cursor of the
\* colour plane are equal after every module, whatever module artifacts are
\* on disk.
C25_CursorsEqual ==
    pass.assembled =>
        /\ \A k \in 1 .. Len(pass.slots) :
              pass.slots[k].black.cursor = pass.slots[k].colour.cursor
        /\ pass.im1_cursor = pass.im2_cursor

====
